---- MODULE Spec2Model ----
(***************************************************************************)
(* Model of crates/proofs/src/base/encode/varint_trait.rs: the VarInt      *)
(* trait (required_space / decode_var / encode_var) for u8..u64, i8..i64,  *)
(* usize and isize.                                                        *)
(*                                                                         *)
(* Machine integers are bit vectors: a value of an integer type of w bits  *)
(* is a function 0..w-1 -> {0,1}, bit 0 the least significant; signed      *)
(* types are two's complement.  Bytes of a slice and usize counts that     *)
(* stay small are naturals.  usize/isize are those of a 64-bit target; on  *)
(* a 32-bit target their impl_varint! instances coincide with the u32/i32  *)
(* instances, which are modelled as well.                                  *)
(***************************************************************************)
EXTENDS Integers, Sequences, FiniteSets, TLC

(* ---------------- bounds of the explored inputs ------------------------ *)
\* longest destination buffer handed to encode_var
MaxBuf == 11
\* longest run of continuation bytes at the start of a decode input
MaxRun == 10
\* longest sequence of further bytes following that run
MaxTail == 2
\* longest sequence of bytes appended when an input is extended
MaxExtra == 1

(* ---------------- bit vectors ------------------------------------------ *)
Zero(w) == [i \in 0..(w-1) |-> 0]
\* low k bits set
Ones(k, w) == [i \in 0..(w-1) |-> IF i < k THEN 1 ELSE 0]
\* only bit k set
Pow2(k, w) == [i \in 0..(w-1) |-> IF i = k THEN 1 ELSE 0]
\* the natural n < 2^30 as a w-bit value (wrapping)
FromNat(n, w) == [i \in 0..(w-1) |-> IF i < 30 THEN (n \div (2^i)) % 2 ELSE 0]

BvNot(x) == [i \in DOMAIN x |-> 1 - x[i]]
BvAnd(x, y) == [i \in DOMAIN x |-> x[i] * y[i]]
BvOr(x, y) == [i \in DOMAIN x |-> IF x[i] + y[i] > 0 THEN 1 ELSE 0]
BvXor(x, y) == [i \in DOMAIN x |-> (x[i] + y[i]) % 2]
\* x << s, bits shifted out are lost
Shl(x, s, w) == [i \in 0..(w-1) |-> IF i >= s THEN x[i - s] ELSE 0]
\* x >> s on an unsigned type
Shr(x, s, w) == [i \in 0..(w-1) |-> IF i + s < w THEN x[i + s] ELSE 0]
\* x >> s on a signed type (sign-extending)
Sar(x, s, w) == [i \in 0..(w-1) |-> IF i + s < w THEN x[i + s] ELSE x[w - 1]]
\* two's complement negation: bits above the lowest set bit are flipped
FlipAbove(x, low) == [i \in DOMAIN x |-> IF i <= low THEN x[i] ELSE 1 - x[i]]
WrappingNeg(x) ==
  IF \A i \in DOMAIN x : x[i] = 0 THEN x
  ELSE FlipAbove(x, CHOOSE i \in DOMAIN x : x[i] = 1 /\ \A j \in DOMAIN x : j < i => x[j] = 0)

\* x > y, both unsigned of the same width
UGt(x, y) ==
  \E i \in DOMAIN x : /\ x[i] = 1
                      /\ y[i] = 0
                      /\ \A j \in DOMAIN x : j > i => x[j] = y[j]
\* x > y, both signed (two's complement) of width w
SGt(x, y, w) ==
  IF x[w - 1] # y[w - 1] THEN x[w - 1] = 0 ELSE UGt(x, y)

\* `as` casts between integer types: widen an unsigned value, widen a signed
\* value, keep the low w bits
ZeroExtend(x, from, w) == [i \in 0..(w-1) |-> IF i < from THEN x[i] ELSE 0]
SignExtend(x, from, w) == [i \in 0..(w-1) |-> IF i < from THEN x[i] ELSE x[from - 1]]
Truncate(x, w) == [i \in 0..(w-1) |-> x[i]]

LeadingZeros(x, w) ==
  IF \A i \in 0..(w-1) : x[i] = 0 THEN w
  ELSE (w - 1) - (CHOOSE i \in 0..(w-1) : x[i] = 1 /\ \A j \in 0..(w-1) : j > i => x[j] = 0)

(* ---------------- bytes ------------------------------------------------- *)
Byte == 0..255
ByteBit(b, i) == (b \div (2^i)) % 2
ByteOfBits(f) ==
  f[0] + 2*f[1] + 4*f[2] + 8*f[3] + 16*f[4] + 32*f[5] + 64*f[6] + 128*f[7]
ByteAnd(a, b) == ByteOfBits([i \in 0..7 |-> ByteBit(a, i) * ByteBit(b, i)])
ByteOr(a, b) == ByteOfBits([i \in 0..7 |-> IF ByteBit(a, i) + ByteBit(b, i) > 0 THEN 1 ELSE 0])
\* `n as u8` for a u64 n
U64AsU8(n) == ByteOfBits(n)
\* `b as u64` for a byte b
U8AsU64(b) == [i \in 0..63 |-> IF i < 8 THEN ByteBit(b, i) ELSE 0]

MSB == 128
DROP_MSB == 127

(* ---------------- Option<(Self, usize)> --------------------------------- *)
None == [tag |-> "None"]
Some(v, n) == [tag |-> "Some", val |-> v, len |-> n]

(* Variants of the definitions below, each changed the way a slip in the   *)
(* code would change it; the properties at the end are checked to tell    *)
(* each of them from the code.                                            *)

(* ---------------- zigzag ------------------------------------------------ *)
\* zigzag_encode with a logical instead of an arithmetic `from >> 63`
zigzag_encode_lsr(from) == BvXor(Shl(from, 1, 64), Shr(from, 63, 64))

\* ((from << 1) ^ (from >> 63)) as u64, from: i64
zigzag_encode(from) == BvXor(Shl(from, 1, 64), Sar(from, 63, 64))

\* ((from >> 1) ^ (-((from & 1) as i64)) as u64) as i64, from: u64
zigzag_decode(from) ==
  BvXor(Shr(from, 1, 64), WrappingNeg(BvAnd(from, Pow2(0, 64))))

(* ---------------- impl VarInt for u64 ----------------------------------- *)
\* required_space rounding up with `(bits + 7) / 7`
u64_required_space_plus7(self) ==
  LET bits == 64 - LeadingZeros(self, 64)
      groups == (bits + 7) \div 7
  IN IF groups > 1 THEN groups ELSE 1

u64_required_space(self) ==
  LET bits == 64 - LeadingZeros(self, 64)
      groups == (bits + 6) \div 7
  IN IF groups > 1 THEN groups ELSE 1

\* loop body with the overflow guard one byte early: `shift >= 9 * 7`
DecodeStep_early(b, result, shift, success) ==
  LET msb_dropped == ByteAnd(b, DROP_MSB)
      result1 == BvOr(result, Shl(U8AsU64(msb_dropped), shift, 64))
      shift1 == shift + 7
  IN IF shift1 >= 9 * 7
       THEN [result |-> result1, shift |-> shift1, success |-> (b < 2), brk |-> TRUE]
     ELSE IF ByteAnd(b, MSB) = 0
       THEN [result |-> result1, shift |-> shift1, success |-> TRUE, brk |-> TRUE]
     ELSE [result |-> result1, shift |-> shift1, success |-> success, brk |-> FALSE]

\* loop body whose tenth byte only has to be a terminator: `b & MSB == 0`
DecodeStep_lax(b, result, shift, success) ==
  LET msb_dropped == ByteAnd(b, DROP_MSB)
      result1 == BvOr(result, Shl(U8AsU64(msb_dropped), shift, 64))
      shift1 == shift + 7
  IN IF shift1 > 9 * 7
       THEN [result |-> result1, shift |-> shift1,
             success |-> (ByteAnd(b, MSB) = 0), brk |-> TRUE]
     ELSE IF ByteAnd(b, MSB) = 0
       THEN [result |-> result1, shift |-> shift1, success |-> TRUE, brk |-> TRUE]
     ELSE [result |-> result1, shift |-> shift1, success |-> success, brk |-> FALSE]

\* loop body without the `break` after a terminating byte
DecodeStep_nobreak(b, result, shift, success) ==
  LET msb_dropped == ByteAnd(b, DROP_MSB)
      result1 == BvOr(result, Shl(U8AsU64(msb_dropped), shift, 64))
      shift1 == shift + 7
  IN IF shift1 > 9 * 7
       THEN [result |-> result1, shift |-> shift1, success |-> (b < 2), brk |-> TRUE]
     ELSE IF ByteAnd(b, MSB) = 0
       THEN [result |-> result1, shift |-> shift1, success |-> TRUE, brk |-> FALSE]
     ELSE [result |-> result1, shift |-> shift1, success |-> success, brk |-> FALSE]

\* loop body accumulating the whole byte instead of `b & DROP_MSB`
DecodeStep_nomask(b, result, shift, success) ==
  LET result1 == BvOr(result, Shl(U8AsU64(b), shift, 64))
      shift1 == shift + 7
  IN IF shift1 > 9 * 7
       THEN [result |-> result1, shift |-> shift1, success |-> (b < 2), brk |-> TRUE]
     ELSE IF ByteAnd(b, MSB) = 0
       THEN [result |-> result1, shift |-> shift1, success |-> TRUE, brk |-> TRUE]
     ELSE [result |-> result1, shift |-> shift1, success |-> success, brk |-> FALSE]

\* One iteration of the `for b in src.iter()` loop of decode_var on the
\* locals (result, shift, success); brk tells whether the iteration ends in
\* `break`.
DecodeStep(b, result, shift, success) ==
  LET msb_dropped == ByteAnd(b, DROP_MSB)
      result1 == BvOr(result, Shl(U8AsU64(msb_dropped), shift, 64))
      shift1 == shift + 7
  IN IF shift1 > 9 * 7
       THEN [result |-> result1, shift |-> shift1, success |-> (b < 2), brk |-> TRUE]
     ELSE IF ByteAnd(b, MSB) = 0
       THEN [result |-> result1, shift |-> shift1, success |-> TRUE, brk |-> TRUE]
     ELSE [result |-> result1, shift |-> shift1, success |-> success, brk |-> FALSE]

RECURSIVE DecodeLoop(_, _, _, _, _)
\* the loop from the byte at (1-based) position i on
DecodeLoop(src, i, result, shift, success) ==
  IF i > Len(src)
    THEN [result |-> result, shift |-> shift, success |-> success]
  ELSE LET s == DecodeStep(src[i], result, shift, success)
       IN IF s.brk
            THEN [result |-> s.result, shift |-> s.shift, success |-> s.success]
          ELSE DecodeLoop(src, i + 1, s.result, s.shift, s.success)

\* decode_var starting from `success = true`
u64_decode_var_optimist(src) ==
  LET r == DecodeLoop(src, 1, Zero(64), 0, TRUE)
  IN IF r.success THEN Some(r.result, r.shift \div 7) ELSE None

u64_decode_var(src) ==
  LET r == DecodeLoop(src, 1, Zero(64), 0, FALSE)
  IN IF r.success THEN Some(r.result, r.shift \div 7) ELSE None

\* Outcome of encode_var: the destination after the call, the count
\* returned, and whether the call panicked (ret is 0 then).
Panicked(dst) == [dst |-> dst, ret |-> 0, panic |-> TRUE]
Returned(dst, n) == [dst |-> dst, ret |-> n, panic |-> FALSE]

RECURSIVE EncodeLoop_shr8(_, _, _)
\* encode loop with `n >>= 8`
EncodeLoop_shr8(n, dst, i) ==
  IF i >= Len(dst) THEN Panicked(dst)
  ELSE IF \E j \in 7..63 : n[j] = 1
    THEN EncodeLoop_shr8(Shr(n, 8, 64), [dst EXCEPT ![i + 1] = ByteOr(MSB, U64AsU8(n))], i + 1)
  ELSE Returned([dst EXCEPT ![i + 1] = U64AsU8(n)], i + 1)

RECURSIVE EncodeLoop(_, _, _)
\* `while n >= 0x80 { .. }` and the final store, from locals (n, i); a slice
\* index past the end panics (i is 0-based, dst 1-based)
EncodeLoop(n, dst, i) ==
  IF i >= Len(dst) THEN Panicked(dst)
  ELSE IF \E j \in 7..63 : n[j] = 1
    THEN EncodeLoop(Shr(n, 7, 64), [dst EXCEPT ![i + 1] = ByteOr(MSB, U64AsU8(n))], i + 1)
  ELSE Returned([dst EXCEPT ![i + 1] = U64AsU8(n)], i + 1)

\* encode_var without its `assert!`: the slice index check is all that stops it
u64_encode_var_noassert(self, dst) == EncodeLoop(self, dst, 0)

u64_encode_var(self, dst) ==
  IF ~(Len(dst) >= u64_required_space(self)) THEN Panicked(dst)
  ELSE EncodeLoop(self, dst, 0)

(* ---------------- impl VarInt for i64 ----------------------------------- *)
i64_required_space(self) == u64_required_space(zigzag_encode(self))

i64_decode_var(src) ==
  LET r == u64_decode_var(src)
  IN IF r = None THEN None ELSE Some(zigzag_decode(r.val), r.len)

i64_encode_var(self, dst) == u64_encode_var(zigzag_encode(self), dst)

(* ---------------- integer types ----------------------------------------- *)
UnsignedNarrow == {"usize", "u32", "u16", "u8"}
SignedNarrow == {"isize", "i32", "i16", "i8"}
Types == UnsignedNarrow \cup SignedNarrow \cup {"u64", "i64"}
IsSigned(T) == T \in SignedNarrow \cup {"i64"}
Bits(T) ==
  CASE T \in {"u8", "i8"} -> 8
    [] T \in {"u16", "i16"} -> 16
    [] T \in {"u32", "i32"} -> 32
    [] OTHER -> 64
\* Self::MAX and Self::MIN, in Self's own width
MaxOf(T) == IF IsSigned(T) THEN Ones(Bits(T) - 1, Bits(T)) ELSE Ones(Bits(T), Bits(T))
MinOf(T) == IF IsSigned(T) THEN Pow2(Bits(T) - 1, Bits(T)) ELSE Zero(Bits(T))

(* ---------------- impl_varint!($t, unsigned) ----------------------------- *)
unsigned_required_space(T, self) == u64_required_space(ZeroExtend(self, Bits(T), 64))

\* narrow decode without the range check: `Some((n as Self, s))` always
unsigned_decode_var_wrapping(T, src) ==
  LET r == u64_decode_var(src)
  IN IF r = None THEN None ELSE Some(Truncate(r.val, Bits(T)), r.len)

unsigned_decode_var(T, src) ==
  LET r == u64_decode_var(src)
  IN IF r = None THEN None
     ELSE IF UGt(r.val, ZeroExtend(MaxOf(T), Bits(T), 64)) THEN None
     ELSE Some(Truncate(r.val, Bits(T)), r.len)

unsigned_encode_var(T, self, dst) == u64_encode_var(ZeroExtend(self, Bits(T), 64), dst)

(* ---------------- impl_varint!($t, signed) ------------------------------- *)
signed_required_space(T, self) == i64_required_space(SignExtend(self, Bits(T), 64))

signed_decode_var(T, src) ==
  LET r == i64_decode_var(src)
  IN IF r = None THEN None
     ELSE IF \/ SGt(r.val, SignExtend(MaxOf(T), Bits(T), 64), 64)
             \/ SGt(SignExtend(MinOf(T), Bits(T), 64), r.val, 64)
       THEN None
     ELSE Some(Truncate(r.val, Bits(T)), r.len)

signed_encode_var(T, self, dst) == i64_encode_var(SignExtend(self, Bits(T), 64), dst)

(* ---------------- trait VarInt: dispatch on the implementing type -------- *)
required_space(T, self) ==
  CASE T = "u64" -> u64_required_space(self)
    [] T = "i64" -> i64_required_space(self)
    [] T \in UnsignedNarrow -> unsigned_required_space(T, self)
    [] T \in SignedNarrow -> signed_required_space(T, self)

decode_var(T, src) ==
  CASE T = "u64" -> u64_decode_var(src)
    [] T = "i64" -> i64_decode_var(src)
    [] T \in UnsignedNarrow -> unsigned_decode_var(T, src)
    [] T \in SignedNarrow -> signed_decode_var(T, src)

encode_var(T, self, dst) ==
  CASE T = "u64" -> u64_encode_var(self, dst)
    [] T = "i64" -> i64_encode_var(self, dst)
    [] T \in UnsignedNarrow -> unsigned_encode_var(T, self, dst)
    [] T \in SignedNarrow -> signed_encode_var(T, self, dst)

\* #[cfg(test)] helper: vec![0; self.required_space()], encode into it
encode_var_vec(T, self) ==
  encode_var(T, self, [i \in 1..required_space(T, self) |-> 0])

(* ---------------- inputs ------------------------------------------------- *)
\* values of type T that are tried: small numbers, the 2^k - 1 and 2^k with
\* k next to a 7-bit group boundary or at the top of the width, and the
\* bitwise complements of all of these (so 0, MIN, MAX, -1, the -2^k, and the
\* first and last value of every encoded length are among them)
Values(T) ==
  LET w == Bits(T)
      ks == {k \in 0..w : k % 7 \in {0, 1, 6} \/ k >= w - 1}
      pos == {FromNat(n, w) : n \in {0, 1, 2, 127, 128, 300, 16383, 16384}}
               \cup {Ones(k, w) : k \in ks}
               \cup {Pow2(k, w) : k \in ks \ {w}}
  IN pos \cup {BvNot(x) : x \in pos}

SeqsUpTo(S, n) == UNION {[1..k -> S] : k \in 0..n}
Rep(b, n) == [i \in 1..n |-> b]
ContBytes == {172, 255}
TailBytes == {0, 1, 2, 128, 255}
\* decode inputs: a run of equal continuation bytes followed by a few bytes
Srcs ==
  {Rep(c, r) \o t : c \in ContBytes, r \in 0..MaxRun, t \in SeqsUpTo(TailBytes, MaxTail)}
\* destination buffers, filled with 0xEE before the call
Dsts == {Rep(238, n) : n \in 0..MaxBuf}
\* bytes that may follow a decoded value in a longer slice
Extras == SeqsUpTo({0, 1, 255}, MaxExtra)

(* ---------------- the caller --------------------------------------------- *)
VARIABLES
  pc,        \* position of the caller
  T,         \* the implementing type of the call ("none" before a decode)
  self,      \* the value passed to required_space / encode_var
  buf,       \* the byte slice: dst of encode_var, src of decode_var
  space,     \* result of required_space
  written,   \* result of encode_var
  panicked,  \* encode_var hit its assertion
  decoded    \* result of decode_var

vars == <<pc, T, self, buf, space, written, panicked, decoded>>

Init ==
  /\ space = 0
  /\ written = 0
  /\ panicked = FALSE
  /\ decoded = None
  /\ \/ /\ pc = "start"
        /\ T \in Types
        /\ self \in Values(T)
        /\ buf \in Dsts
     \/ /\ pc = "input"
        /\ T = "none"
        /\ self = <<>>
        /\ buf \in Srcs

\* self.required_space()
RequiredSpace ==
  /\ pc = "start"
  /\ space' = required_space(T, self)
  /\ pc' = "sized"
  /\ UNCHANGED <<T, self, buf, written, panicked, decoded>>

\* self.encode_var(&mut buf)
EncodeVar ==
  /\ pc = "sized"
  /\ LET r == encode_var(T, self, buf)
     IN /\ buf' = r.dst
        /\ written' = r.ret
        /\ panicked' = r.panic
  /\ pc' = "encoded"
  /\ UNCHANGED <<T, self, space, decoded>>

\* self.encode_var_vec(): buf becomes the Vec returned; space and written
\* are the helper's required_space() and the count of its encode_var call
EncodeVarVec ==
  /\ pc = "start"
  /\ LET r == encode_var_vec(T, self)
     IN /\ buf' = r.dst
        /\ written' = r.ret
        /\ panicked' = r.panic
  /\ space' = required_space(T, self)
  /\ pc' = "encoded"
  /\ UNCHANGED <<T, self, decoded>>

\* T::decode_var(&buf) on the slice just encoded into
DecodeBack ==
  /\ pc = "encoded"
  /\ ~panicked
  /\ decoded' = decode_var(T, buf)
  /\ pc' = "roundtrip"
  /\ UNCHANGED <<T, self, buf, space, written, panicked>>

\* DT::decode_var(&buf) on an arbitrary slice
DecodeVar(DT) ==
  /\ pc = "input"
  /\ T' = DT
  /\ decoded' = decode_var(DT, buf)
  /\ pc' = "decoded"
  /\ UNCHANGED <<self, buf, space, written, panicked>>

Next ==
  \/ RequiredSpace
  \/ EncodeVar
  \/ EncodeVarVec
  \/ DecodeBack
  \/ \E DT \in Types : DecodeVar(DT)

Spec == Init /\ [][Next]_vars

(* ======================= properties ====================================== *)
\* the 64-bit value a call on (T, self) hands to the base codec's bit
\* packing: self widened, and zigzag-mapped for a signed type
Widened(ty, x) ==
  IF IsSigned(ty) THEN SignExtend(x, Bits(ty), 64) ELSE ZeroExtend(x, Bits(ty), 64)
Packed(ty, x) ==
  IF IsSigned(ty) THEN zigzag_encode(Widened(ty, x)) ELSE Widened(ty, x)
\* the 7-bit group g of a 64-bit value, as a number
Group(u, g) ==
  LET bit(j) == IF j <= 63 THEN u[j] ELSE 0
  IN bit(7*g) + 2*bit(7*g + 1) + 4*bit(7*g + 2) + 8*bit(7*g + 3)
       + 16*bit(7*g + 4) + 32*bit(7*g + 5) + 64*bit(7*g + 6)
\* least number g >= 1 of 7-bit groups holding every set bit of u
GroupsNeeded(u) ==
  CHOOSE g \in 1..10 : /\ \A j \in 0..63 : u[j] = 1 => j < 7 * g
                       /\ g > 1 => \E j \in 0..63 : u[j] = 1 /\ j >= 7 * (g - 1)
\* a 64-bit value is the widening of some value of type ty
Fits(ty, x) ==
  IF IsSigned(ty) THEN \A j \in (Bits(ty) - 1)..63 : x[j] = x[63]
  ELSE \A j \in Bits(ty)..63 : x[j] = 0
AllContinuation(bytes) == \A i \in 1..Len(bytes) : bytes[i] >= 128
\* 1-based position of the first byte without the continuation bit
FirstClear(bytes) ==
  CHOOSE i \in 1..Len(bytes) : bytes[i] < 128 /\ \A j \in 1..(i-1) : bytes[j] >= 128
\* the 64-bit value whose 7-bit groups are the payloads of bytes[1..n]
Accumulated(bytes, n) ==
  [j \in 0..63 |-> IF j \div 7 < n THEN ByteBit(bytes[(j \div 7) + 1], j % 7) ELSE 0]

\* C1: round trip. For every type T and value v of T, decoding as T the
\* buffer v was encoded into returns Some((v, n)), n the count encode_var
\* returned.
RoundTrip ==
  pc = "roundtrip" => decoded = Some(self, written)
RoundTripWitness ==
  /\ pc = "roundtrip"
  /\ T = "i64"
  /\ self = MinOf("i64")
  /\ Len(buf) = space
  /\ written = 10
  /\ decoded # None

\* C2: canonical minimality. The count encode_var returns equals
\* required_space, which is max(1, ceil(bit_length / 7)) of the 64-bit value
\* packed, and an encoding of more than one byte does not end in a zero byte.
CanonicalMinimality ==
  (pc \in {"encoded", "roundtrip"} /\ ~panicked) =>
    /\ written = space
    /\ space = GroupsNeeded(Packed(T, self))
    /\ written > 1 => buf[written] # 0
CanonicalMinimalityWitness ==
  /\ pc = "encoded"
  /\ ~panicked
  /\ T = "u64"
  /\ self = Pow2(14, 64)
  /\ Len(buf) > 3
  /\ written = 3

\* C3: width-overflow rejection. Decoding as a narrow type T returns None
\* exactly when the 64-bit base decode returns None or its value is outside
\* T's range; otherwise it returns the base decode's value and count.
NarrowDecodeConsistent ==
  (pc = "decoded" /\ T \in UnsignedNarrow \cup SignedNarrow) =>
    LET base == IF IsSigned(T) THEN i64_decode_var(buf) ELSE u64_decode_var(buf)
    IN /\ decoded = None <=> (base = None \/ ~Fits(T, base.val))
       /\ decoded # None =>
            /\ Widened(T, decoded.val) = base.val
            /\ decoded.len = base.len
NarrowDecodeWitness ==
  /\ pc = "decoded"
  /\ T = "u8"
  /\ buf = <<172, 2>>
  /\ decoded = None
  /\ decode_var("u32", buf) = Some(FromNat(300, 32), 2)

\* C4: 64-bit overflow boundary. When the first nine bytes all have the
\* continuation bit, u64 decode succeeds iff a tenth byte exists and is 0 or
\* 1; it then consumes ten bytes and the tenth byte supplies bit 63 only.
OverflowBoundary ==
  (pc = "decoded" /\ T = "u64" /\ Len(buf) >= 9 /\ AllContinuation(SubSeq(buf, 1, 9))) =>
    /\ decoded # None <=> (Len(buf) >= 10 /\ buf[10] \in {0, 1})
    /\ decoded # None =>
         /\ decoded.len = 10
         /\ decoded.val[63] = buf[10]
         /\ \A j \in 0..62 : decoded.val[j] = Accumulated(buf, 9)[j]
    /\ buf = Rep(255, 9) \o <<1>> => decoded = Some(Ones(64, 64), 10)
    /\ buf = Rep(255, 9) \o <<2>> => decoded = None
OverflowBoundaryWitness ==
  /\ pc = "decoded"
  /\ T = "u64"
  /\ buf = Rep(255, 9) \o <<1>>
  /\ decoded = Some(Ones(64, 64), 10)

\* C5: truncated input. For every type, decode_var returns None on the
\* empty slice and on every slice all of whose bytes have the continuation
\* bit.
TruncatedInputFails ==
  (pc = "decoded" /\ AllContinuation(buf)) => decoded = None
TruncatedInputWitness ==
  /\ pc = "decoded"
  /\ T = "i16"
  /\ Len(buf) = 11
  /\ AllContinuation(buf)
  /\ decoded = None

\* C6: zigzag. zigzag_encode and zigzag_decode are inverse to each other on
\* all 64-bit values, 0, -1, 1 map to 0, 1, 2, and a signed value is encoded
\* as the bytes of the unsigned encoding of its zigzag image.
ZigzagCorrect ==
  pc \in {"start", "sized", "encoded"} =>
    LET x == Widened(T, self)
    IN /\ zigzag_decode(zigzag_encode(x)) = x
       /\ zigzag_encode(zigzag_decode(x)) = x
       /\ x = Zero(64) => zigzag_encode(x) = Zero(64)
       /\ x = Ones(64, 64) => zigzag_encode(x) = FromNat(1, 64)
       /\ x = FromNat(1, 64) => zigzag_encode(x) = FromNat(2, 64)
       /\ (pc = "encoded" /\ ~panicked /\ IsSigned(T)) =>
            /\ SubSeq(buf, 1, written) = encode_var_vec("u64", zigzag_encode(x)).dst
            /\ x = Ones(64, 64) => SubSeq(buf, 1, written) = <<1>>
            /\ x = Zero(64) => SubSeq(buf, 1, written) = <<0>>
ZigzagWitness ==
  /\ pc = "encoded"
  /\ T = "i64"
  /\ self = Ones(64, 64)
  /\ written = 1
  /\ buf[1] = 1

\* C7: wire format. For an unsigned value v, encode_var writes 1 to 10
\* bytes, byte i carries (v >> 7i) & 0x7F in bits 0-6, and bit 7 is set in
\* every byte written but the last.
WireFormat ==
  (pc = "encoded" /\ ~panicked /\ ~IsSigned(T)) =>
    LET v == Widened(T, self)
    IN /\ written \in 1..10
       /\ \A i \in 0..(written - 1) :
            /\ buf[i + 1] % 128 = Group(v, i)
            /\ buf[i + 1] >= 128 <=> i < written - 1
       /\ v = FromNat(0, 64) => SubSeq(buf, 1, written) = <<0>>
       /\ v = FromNat(127, 64) => SubSeq(buf, 1, written) = <<127>>
       /\ v = FromNat(128, 64) => SubSeq(buf, 1, written) = <<128, 1>>
       /\ v = FromNat(300, 64) => SubSeq(buf, 1, written) = <<172, 2>>
WireFormatWitness ==
  /\ pc = "encoded"
  /\ T = "u64"
  /\ self = FromNat(300, 64)
  /\ written = 2
  /\ SubSeq(buf, 1, 2) = <<172, 2>>

\* C8: encode buffer contract. With a destination shorter than
\* required_space, encode_var panics and the destination is untouched; with
\* a sufficient one it does not panic and every byte at an index >=
\* required_space keeps its value.
EncodeBufferStep ==
  (pc = "sized" /\ pc' = "encoded") =>
    IF Len(buf) < space
      THEN panicked' /\ buf' = buf
    ELSE /\ ~panicked'
         /\ Len(buf') = Len(buf)
         /\ \A i \in (space + 1)..Len(buf) : buf'[i] = buf[i]
EncodeBufferContract == [][EncodeBufferStep]_vars
EncodeBufferWitness ==
  /\ pc = "encoded"
  /\ panicked
  /\ space = 10
  /\ buf = Rep(238, 9)

\* C9: decode ignores trailing bytes. A successful decode consumes n bytes,
\* 1 <= n <= min(len, 10), ending at the first byte without continuation bit
\* (or the tenth byte), and decoding the first n bytes followed by any other
\* bytes gives the same result.
DecodeIgnoresTrailing ==
  (pc = "decoded" /\ decoded # None) =>
    LET n == decoded.len
    IN /\ n >= 1
       /\ n <= Len(buf)
       /\ n <= 10
       /\ n = IF AllContinuation(SubSeq(buf, 1, IF Len(buf) < 9 THEN Len(buf) ELSE 9))
                THEN 10 ELSE FirstClear(buf)
       /\ \A t \in Extras : decode_var(T, SubSeq(buf, 1, n) \o t) = decoded
DecodeIgnoresTrailingWitness ==
  /\ pc = "decoded"
  /\ T = "u16"
  /\ buf = <<172, 2, 255>>
  /\ decoded = Some(FromNat(300, 16), 2)

\* C10: decode accumulation. When the first byte without continuation bit
\* is at 0-based index k <= 8, u64 decode returns the value whose 7-bit
\* groups are the payloads of bytes 0..k, and k + 1; the count is at least
\* required_space of the value and equals it exactly when those bytes are
\* the canonical encoding.
DecodeAccumulates ==
  (pc = "decoded" /\ T = "u64" /\ ~AllContinuation(SubSeq(buf, 1, IF Len(buf) < 9 THEN Len(buf) ELSE 9))) =>
    LET k == FirstClear(buf) - 1
        v == Accumulated(buf, k + 1)
    IN /\ decoded = Some(v, k + 1)
       /\ \A i \in 0..k : Group(v, i) = buf[i + 1] % 128
       /\ k + 1 >= u64_required_space(v)
       /\ k + 1 = u64_required_space(v) <=> SubSeq(buf, 1, k + 1) = encode_var_vec("u64", v).dst
       /\ (Len(buf) >= 2 /\ SubSeq(buf, 1, 2) = <<128, 0>>) => decoded = Some(Zero(64), 2)
DecodeAccumulatesWitness ==
  /\ pc = "decoded"
  /\ T = "u64"
  /\ buf = <<128, 0>>
  /\ decoded = Some(Zero(64), 2)
  /\ u64_required_space(decoded.val) = 1
====
